---- MODULE Spec2Model ----
(***************************************************************************)
(* Model of system_information_plugin/__init__.py: the class               *)
(* SystemInformationPlugin, its lifecycle hooks, and get_system_info.      *)
(*                                                                         *)
(* Python str values are TLA+ strings; formatting is string concatenation. *)
(* A Python value of a local or of a return is a tagged record:            *)
(*   [t |-> "None"], [t |-> "str", s |-> ...], [t |-> "bool", b |-> ...],  *)
(*   [t |-> "prompt", id |-> ...], and a raised exception is               *)
(*   [t |-> "raise", exc |-> ..., origin |-> ...].                         *)
(***************************************************************************)
EXTENDS Naturals, Sequences, FiniteSets, TLC

VARIABLES
    host,          \* the facts the OS queries answer with (platform.*, distro.*)
    _name,         \* self._name
    _version,      \* self._version
    _description,  \* self._description
    resources,     \* resources[p]: the resource list of prompt object p
    messages,      \* the framework's message list handed to the hooks
    arguments,     \* the framework's command-argument dict handed to pre_command
    lastCall,      \* the plugin method the framework called last
    lastHost,      \* the host facts at the time of that call
    fault,         \* the OS query that was failing during that call ("none": none)
    calls,         \* the calls that method made, in order
    ret            \* what the framework's call site received: a value or a raise

vars == <<host, _name, _version, _description, resources, messages, arguments,
          lastCall, lastHost, fault, calls, ret>>

----------------------------------------------------------------------------
(* Bounds *)

\* post_prompt is called while the prompts hold fewer resources than this
MaxResources == 2

----------------------------------------------------------------------------
(* Python values *)

None == [t |-> "None"]

Unbound == [t |-> "unbound"]

Str(s) == [t |-> "str", s |-> s]

Bool(b) == [t |-> "bool", b |-> b]

PromptRef(p) == [t |-> "prompt", id |-> p]

Raise(exc, origin) == [t |-> "raise", exc |-> exc, origin |-> origin]

\* bool(v) for v None or a str
Truthy(v) == v.t = "str" /\ v.s # ""

\* t is a substring of s
Contains(s, t) == \E i \in 0..(Len(s) - Len(t)) : SubSeq(s, i + 1, i + Len(t)) = t

\* number of occurrences of x in the sequence q
Count(q, x) == Cardinality({i \in 1..Len(q) : q[i] = x})

----------------------------------------------------------------------------
(* The host: what the OS queries return *)

Archs == {"64bit", "32bit"}

Queries == {"platform.architecture", "platform.system", "distro.name",
            "distro.version", "distro.id", "platform.win32_ver",
            "platform.mac_ver"}

Faults == Queries \cup {"none"}

\* platform.win32_ver() returns (release, version, csd, ptype)
EmptyWin == <<"", "", "", "">>

WinVers == {EmptyWin, <<"10", "10.0.19045", "SP0", "Multiprocessor Free">>,
            <<"11", "", "", "">>}

\* platform.mac_ver() returns (release, versioninfo, machine)
EmptyMac == <<"", <<"", "", "">>, "">>

MacVers == {EmptyMac, <<"13.4", <<"", "", "">>, "arm64">>,
            <<"10.15.7", <<"", "", "">>, "">>, <<"", <<"", "", "">>, "x86_64">>}

MkHost(sys, arch, dn, dv, di, win, mac) ==
    [system |-> sys,
     architecture |-> <<arch, IF sys = "Windows" THEN "WindowsPE"
                              ELSE IF sys = "Linux" THEN "ELF" ELSE "">>,
     distro_name |-> dn, distro_version |-> dv, distro_id |-> di,
     win32_ver |-> win, mac_ver |-> mac]

LinuxHosts == {MkHost("Linux", a, dn, dv, di, EmptyWin, EmptyMac) :
                 a \in Archs \cup {""}, dn \in {"", "Ubuntu"},
                 dv \in {"", "22.04"}, di \in {"", "ubuntu"}}

WindowsHosts == {MkHost("Windows", a, "", "", "", w, EmptyMac) :
                   a \in Archs, w \in WinVers}

DarwinHosts == {MkHost("Darwin", a, "", "", "", EmptyWin, v) :
                  a \in Archs, v \in MacVers}

OtherHosts == {MkHost(s, a, "", "", "", EmptyWin, EmptyMac) :
                 s \in {"FreeBSD", "Java", ""}, a \in Archs}

AllHosts == LinuxHosts \cup WindowsHosts \cup DarwinHosts \cup OtherHosts

\* the hosts the framework moves between in Spec
Hosts == {MkHost("Linux", "64bit", "Ubuntu", "22.04", "ubuntu", EmptyWin, EmptyMac),
          MkHost("Linux", "32bit", "", "", "", EmptyWin, EmptyMac),
          MkHost("Windows", "64bit", "", "", "",
                 <<"10", "10.0.19045", "SP0", "Multiprocessor Free">>, EmptyMac),
          MkHost("Darwin", "64bit", "", "", "", EmptyWin,
                 <<"13.4", <<"", "", "">>, "arm64">>),
          MkHost("FreeBSD", "64bit", "", "", "", EmptyWin, EmptyMac)}

Recognized(h) == h.system \in {"Linux", "Windows", "Darwin"}

PromptIds == {1, 2}

----------------------------------------------------------------------------
(* get_system_info, statement by statement.  A frame holds the locals of   *)
(* one activation, the calls made so far and the exception in flight.      *)

NoExc == [t |-> "none"]

QueryError(q) == Raise("QueryError", q)

IndexError == Raise("IndexError", "win_ver[4]")

UnboundLocalError == Raise("UnboundLocalError", "os_info")

Frame(h, f) ==
    [host |-> h, fault |-> f, raised |-> NoExc, calls |-> <<>>,
     arch |-> Unbound, distro_name |-> Unbound, distro_version |-> Unbound,
     distro_id |-> Unbound, distro_info |-> Unbound, win_version |-> Unbound,
     mac_version |-> Unbound, os_info |-> Unbound]

Raised(fr) == fr.raised # NoExc

\* one OS query: it is made, and raises when it is the failing one
Query(fr, q) ==
    IF Raised(fr) THEN fr
    ELSE [fr EXCEPT !.calls = Append(@, q),
                    !.raised = IF fr.fault = q THEN QueryError(q) ELSE NoExc]

\* t[i] of a Python tuple is legal for 0 <= i < len(t)
InRange(t, i) == i + 1 \in 1..Len(t)

\* arch = platform.architecture()[0]
GetArch(fr) ==
    LET f1 == Query(fr, "platform.architecture")
    IN  IF Raised(f1) THEN f1
        ELSE [f1 EXCEPT !.arch = Str(f1.host.architecture[1])]

\* GetDistroInfo with the id left out of the format string
GetDistroInfo_NoId(fr) ==
    LET f1 == Query(fr, "platform.system")
        f2 == Query(f1, "distro.name")
        f3 == Query(f2, "distro.version")
        f4 == Query(f3, "distro.id")
    IN  IF Raised(f1) THEN f1
        ELSE IF f1.host.system = "Linux"
        THEN IF Raised(f4) THEN f4
             ELSE [f4 EXCEPT
                     !.distro_info = Str(f4.host.distro_name \o " "
                                         \o f4.host.distro_version)]
        ELSE [f1 EXCEPT !.distro_info = None]

\* if platform.system() == "Linux": distro_info = f"{name} {version} ({id})"
GetDistroInfo(fr) ==
    LET f1 == Query(fr, "platform.system")
        f2 == Query(f1, "distro.name")
        f3 == Query(f2, "distro.version")
        f4 == Query(f3, "distro.id")
    IN  IF Raised(f1) THEN f1
        ELSE IF f1.host.system = "Linux"
        THEN IF Raised(f4) THEN f4
             ELSE [f4 EXCEPT
                     !.distro_name = Str(f4.host.distro_name),
                     !.distro_version = Str(f4.host.distro_version),
                     !.distro_id = Str(f4.host.distro_id),
                     !.distro_info = Str(f4.host.distro_name \o " "
                                         \o f4.host.distro_version \o " ("
                                         \o f4.host.distro_id \o ")")]
        ELSE [f1 EXCEPT !.distro_info = None]

\* if platform.system() == "Windows":
\*     win_version = f"{win_ver[0]} {win_ver[1]} {win_ver[4]}"
GetWinVersion(fr) ==
    LET f1 == Query(fr, "platform.system")
        f2 == Query(f1, "platform.win32_ver")
        win_ver == f2.host.win32_ver
    IN  IF Raised(f1) THEN f1
        ELSE IF f1.host.system = "Windows"
        THEN IF Raised(f2) THEN f2
             ELSE IF ~(InRange(win_ver, 0) /\ InRange(win_ver, 1)
                       /\ InRange(win_ver, 4))
             THEN [f2 EXCEPT !.raised = IndexError]
             ELSE [f2 EXCEPT !.win_version =
                     Str(win_ver[1] \o " " \o win_ver[2] \o " " \o win_ver[5])]
        ELSE [f1 EXCEPT !.win_version = None]

\* GetMacVersion formatting the release alone
GetMacVersion_ReleaseOnly(fr) ==
    LET f1 == Query(fr, "platform.system")
        f2 == Query(f1, "platform.mac_ver")
        mac_ver == f2.host.mac_ver
    IN  IF Raised(f1) THEN f1
        ELSE IF f1.host.system = "Darwin"
        THEN IF Raised(f2) THEN f2
             ELSE [f2 EXCEPT !.mac_version = Str(mac_ver[1] \o " ")]
        ELSE [f1 EXCEPT !.mac_version = None]

\* if platform.system() == "Darwin": mac_version = f"{mac_ver[0]} {mac_ver[2]}"
GetMacVersion(fr) ==
    LET f1 == Query(fr, "platform.system")
        f2 == Query(f1, "platform.mac_ver")
        mac_ver == f2.host.mac_ver
    IN  IF Raised(f1) THEN f1
        ELSE IF f1.host.system = "Darwin"
        THEN IF Raised(f2) THEN f2
             ELSE IF ~(InRange(mac_ver, 0) /\ InRange(mac_ver, 2))
             THEN [f2 EXCEPT !.raised = Raise("IndexError", "mac_ver[2]")]
             ELSE [f2 EXCEPT !.mac_version =
                     Str(mac_ver[1] \o " " \o mac_ver[3])]
        ELSE [f1 EXCEPT !.mac_version = None]

\* BuildOsInfo putting the architecture into every description
BuildOsInfo_ArchEverywhere(fr) ==
    LET f1 == IF Truthy(fr.distro_info)
              THEN [fr EXCEPT !.os_info =
                      Str("Linux " \o fr.arch.s \o " " \o fr.distro_info.s)]
              ELSE fr
        f2 == IF Truthy(f1.win_version)
              THEN [f1 EXCEPT !.os_info =
                      Str("Windows " \o f1.arch.s \o " " \o f1.win_version.s)]
              ELSE f1
        f3 == IF Truthy(f2.mac_version)
              THEN [f2 EXCEPT !.os_info =
                      Str("macOS " \o f2.arch.s \o " " \o f2.mac_version.s)]
              ELSE f2
    IN  IF Raised(fr) THEN fr ELSE f3

\* the three ifs that build os_info; none of them has an else
BuildOsInfo(fr) ==
    LET f1 == IF Truthy(fr.distro_info)
              THEN [fr EXCEPT !.os_info =
                      Str("Linux " \o fr.arch.s \o " " \o fr.distro_info.s)]
              ELSE fr
        f2 == IF Truthy(f1.win_version)
              THEN [f1 EXCEPT !.os_info = Str("Windows " \o f1.win_version.s)]
              ELSE f1
        f3 == IF Truthy(f2.mac_version)
              THEN [f2 EXCEPT !.os_info = Str("macOS " \o f2.mac_version.s)]
              ELSE f2
    IN  IF Raised(fr) THEN fr ELSE f3

\* return os_info: reading a local that was never bound raises
ReturnOsInfo(fr) ==
    IF Raised(fr) THEN fr
    ELSE IF fr.os_info = Unbound THEN [fr EXCEPT !.raised = UnboundLocalError]
    ELSE fr

\* the activation of get_system_info on host h while query f is failing
RunSystemInfo(h, f) ==
    ReturnOsInfo(BuildOsInfo(GetMacVersion(GetWinVersion(GetDistroInfo(
        GetArch(Frame(h, f)))))))

\* what the caller of get_system_info receives
Outcome(fr) == IF Raised(fr) THEN fr.raised ELSE fr.os_info

----------------------------------------------------------------------------
(* The plugin object and the framework's objects *)

Message(role, content) == [role |-> role, content |-> content]

TheMessages == <<Message("system", "You are an agent"), Message("user", "ls")>>

TheArguments == [command_line |-> "ls"]

Texts == {"", "ok"}

Models == {"gpt-4"}

Temperatures == {0, 1}

TokenLimits == {100}

\* resources held by all the prompts together
TotalResources == Len(resources[1]) + Len(resources[2])

\* __init__
Init ==
    /\ host \in Hosts
    /\ _name = "Auto-GPT-Plugin-SystemInfo"
    /\ _version = "0.1.0"
    /\ _description = "This is system info plugin for Auto-GPT."
    /\ resources = [p \in PromptIds |-> <<>>]
    /\ messages = TheMessages
    /\ arguments = TheArguments
    /\ lastCall = "__init__"
    /\ lastHost = host
    /\ fault = "none"
    /\ calls = <<>>
    /\ ret = None

\* the same plugin on any host of the wider family
InitInfo ==
    /\ host \in AllHosts
    /\ _name = "Auto-GPT-Plugin-SystemInfo"
    /\ _version = "0.1.0"
    /\ _description = "This is system info plugin for Auto-GPT."
    /\ resources = [p \in PromptIds |-> <<>>]
    /\ messages = TheMessages
    /\ arguments = TheArguments
    /\ lastCall = "__init__"
    /\ lastHost = host
    /\ fault = "none"
    /\ calls = <<>>
    /\ ret = None

\* a method that touches nothing and returns v
Returns(name, v) ==
    /\ lastCall' = name
    /\ lastHost' = host
    /\ fault' = "none"
    /\ calls' = <<>>
    /\ ret' = v
    /\ UNCHANGED <<host, _name, _version, _description, resources, messages,
                   arguments>>

----------------------------------------------------------------------------
(* get_system_info and post_prompt *)

\* get_system_info answering from the previous call's result when there is one
get_system_info_cached(f) ==
    LET fr == RunSystemInfo(host, f)
        hit == lastCall = "get_system_info" /\ ret.t = "str"
    IN  /\ lastCall' = "get_system_info"
        /\ lastHost' = host
        /\ fault' = f
        /\ calls' = IF hit THEN <<>> ELSE fr.calls
        /\ ret' = IF hit THEN ret ELSE Outcome(fr)
        /\ UNCHANGED <<host, _name, _version, _description, resources,
                       messages, arguments>>

\* self.get_system_info(), called by the framework while query f is failing
get_system_info(f) ==
    LET fr == RunSystemInfo(host, f)
    IN  /\ lastCall' = "get_system_info"
        /\ lastHost' = host
        /\ fault' = f
        /\ calls' = fr.calls
        /\ ret' = Outcome(fr)
        /\ UNCHANGED <<host, _name, _version, _description, resources,
                       messages, arguments>>

\* prompt.add_resource(text) on prompt object p
add_resource(p, text) == resources' = [resources EXCEPT ![p] = Append(@, text)]

\* post_prompt with get_system_info wrapped in try/except
post_prompt_swallow(p, f) ==
    LET fr == RunSystemInfo(host, f)
        os_info == Outcome(fr)
    IN  /\ TotalResources < MaxResources
        /\ lastCall' = "post_prompt"
        /\ lastHost' = host
        /\ fault' = f
        /\ IF ~Raised(fr) /\ Truthy(os_info)
           THEN /\ calls' = <<"self.get_system_info">> \o fr.calls
                              \o <<"prompt.add_resource">>
                /\ add_resource(p, "Shell commands executed on " \o os_info.s)
                /\ ret' = PromptRef(p)
           ELSE /\ calls' = <<"self.get_system_info">> \o fr.calls
                /\ UNCHANGED resources
                /\ ret' = PromptRef(p)
        /\ UNCHANGED <<host, _name, _version, _description, messages, arguments>>

\* self.post_prompt(prompt), prompt being object p, while query f is failing
post_prompt(p, f) ==
    LET fr == RunSystemInfo(host, f)
        os_info == Outcome(fr)
    IN  /\ TotalResources < MaxResources
        /\ lastCall' = "post_prompt"
        /\ lastHost' = host
        /\ fault' = f
        /\ IF Raised(fr)
           THEN /\ calls' = <<"self.get_system_info">> \o fr.calls
                /\ ret' = fr.raised
                /\ UNCHANGED resources
           ELSE IF Truthy(os_info)
           THEN /\ calls' = <<"self.get_system_info">> \o fr.calls
                              \o <<"prompt.add_resource">>
                /\ add_resource(p, "Shell commands executed on " \o os_info.s)
                /\ ret' = PromptRef(p)
           ELSE /\ calls' = <<"self.get_system_info">> \o fr.calls
                /\ UNCHANGED resources
                /\ ret' = PromptRef(p)
        /\ UNCHANGED <<host, _name, _version, _description, messages, arguments>>

----------------------------------------------------------------------------
(* The capability checks *)

can_handle_post_prompt == Returns("can_handle_post_prompt", Bool(TRUE))

\* can_handle_on_response answering True
can_handle_on_response_True == Returns("can_handle_on_response", Bool(TRUE))

can_handle_on_response == Returns("can_handle_on_response", Bool(FALSE))

can_handle_on_planning == Returns("can_handle_on_planning", Bool(FALSE))

can_handle_post_planning == Returns("can_handle_post_planning", Bool(FALSE))

can_handle_pre_instruction == Returns("can_handle_pre_instruction", Bool(FALSE))

can_handle_on_instruction == Returns("can_handle_on_instruction", Bool(FALSE))

can_handle_post_instruction == Returns("can_handle_post_instruction", Bool(FALSE))

can_handle_pre_command == Returns("can_handle_pre_command", Bool(FALSE))

can_handle_post_command == Returns("can_handle_post_command", Bool(FALSE))

can_handle_chat_completion(msgs, model, temperature, max_tokens) ==
    Returns("can_handle_chat_completion", Bool(FALSE))

----------------------------------------------------------------------------
(* The hooks whose body is pass *)

\* on_response handing its input back
on_response_passthrough(response) == Returns("on_response", Str(response))

on_response(response) == Returns("on_response", None)

on_planning(prompt, msgs) == Returns("on_planning", None)

post_planning(response) == Returns("post_planning", None)

pre_instruction(msgs) == Returns("pre_instruction", None)

on_instruction(msgs) == Returns("on_instruction", None)

post_instruction(response) == Returns("post_instruction", None)

pre_command(command_name, args) == Returns("pre_command", None)

post_command(command_name, response) == Returns("post_command", None)

handle_chat_completion(msgs, model, temperature, max_tokens) ==
    Returns("handle_chat_completion", None)

----------------------------------------------------------------------------
(* The environment and the specifications *)

\* the plugin is next run on another host (or the host is upgraded)
HostChange ==
    /\ host' \in Hosts \ {host}
    /\ UNCHANGED <<_name, _version, _description, resources, messages,
                   arguments, lastCall, lastHost, fault, calls, ret>>

CallSystemInfo == \E f \in Faults : get_system_info(f)

CallPostPrompt == \E p \in PromptIds, f \in Faults : post_prompt(p, f)

CallCanHandle ==
    \/ can_handle_post_prompt
    \/ can_handle_on_response
    \/ can_handle_on_planning
    \/ can_handle_post_planning
    \/ can_handle_pre_instruction
    \/ can_handle_on_instruction
    \/ can_handle_post_instruction
    \/ can_handle_pre_command
    \/ can_handle_post_command
    \/ \E m \in Models, t \in Temperatures, n \in TokenLimits :
          can_handle_chat_completion(messages, m, t, n)

CallHook ==
    \/ \E r \in Texts : on_response(r)
    \/ \E p \in PromptIds : on_planning(p, messages)
    \/ \E r \in Texts : post_planning(r)
    \/ pre_instruction(messages)
    \/ on_instruction(messages)
    \/ \E r \in Texts : post_instruction(r)
    \/ \E c \in Texts : pre_command(c, arguments)
    \/ \E c \in Texts, r \in Texts : post_command(c, r)
    \/ \E m \in Models, t \in Temperatures, n \in TokenLimits :
          handle_chat_completion(messages, m, t, n)

Next ==
    \/ CallSystemInfo
    \/ CallPostPrompt
    \/ CallCanHandle
    \/ CallHook
    \/ HostChange

Spec == Init /\ [][Next]_vars

NextInfo ==
    \/ CallSystemInfo
    \/ CallPostPrompt

SpecInfo == InitInfo /\ [][NextInfo]_vars

----------------------------------------------------------------------------
(* Properties *)

Prefix == "Shell commands executed on "

Last(q) == q[Len(q)]

\* the framework's last call was get_system_info, with every query answering
InfoReturned == lastCall = "get_system_info" /\ fault = "none"

\* C1: on a host whose OS family is none of Linux, Windows and Darwin,
\* get_system_info raises nothing and returns None.
C1_UnrecognizedReturnsNone ==
    (InfoReturned /\ ~Recognized(lastHost)) => ret = None

\* C2: on Windows, for every 4-tuple win32_ver() returns, get_system_info
\* returns a string containing "Windows" and the tuple fields it reads.
C2_WindowsReturnsString ==
    (InfoReturned /\ lastHost.system = "Windows") =>
        /\ ret.t = "str"
        /\ Contains(ret.s, "Windows")
        /\ Contains(ret.s, lastHost.win32_ver[1])
        /\ Contains(ret.s, lastHost.win32_ver[2])

\* C3: on Linux, for every architecture and every distro name, version and
\* id, get_system_info returns a string containing "Linux", the architecture,
\* the name, the version and the id.
C3_LinuxString ==
    (InfoReturned /\ lastHost.system = "Linux") =>
        /\ ret.t = "str"
        /\ Contains(ret.s, "Linux")
        /\ Contains(ret.s, lastHost.architecture[1])
        /\ Contains(ret.s, lastHost.distro_name)
        /\ Contains(ret.s, lastHost.distro_version)
        /\ Contains(ret.s, lastHost.distro_id)

C3_Witness ==
    /\ InfoReturned
    /\ lastHost.system = "Linux"
    /\ lastHost.architecture[1] = "32bit"
    /\ lastHost.distro_name = "Ubuntu"
    /\ lastHost.distro_version = ""
    /\ lastHost.distro_id = "ubuntu"
    /\ ret = Str("Linux 32bit Ubuntu  (ubuntu)")

\* C4: on Darwin, for every value of mac_ver(), get_system_info returns a
\* string containing "macOS" and the fields of mac_ver() it reads (the
\* release and the third field).
C4_MacString ==
    (InfoReturned /\ lastHost.system = "Darwin") =>
        /\ ret.t = "str"
        /\ Contains(ret.s, "macOS")
        /\ Contains(ret.s, lastHost.mac_ver[1])
        /\ Contains(ret.s, lastHost.mac_ver[3])

C4_Witness ==
    /\ InfoReturned
    /\ lastHost.system = "Darwin"
    /\ lastHost.mac_ver[1] = "13.4"
    /\ lastHost.mac_ver[3] = "arm64"
    /\ ret = Str("macOS 13.4 arm64")

FalseChecks ==
    {"can_handle_on_response", "can_handle_on_planning",
     "can_handle_post_planning", "can_handle_pre_instruction",
     "can_handle_on_instruction", "can_handle_post_instruction",
     "can_handle_pre_command", "can_handle_post_command",
     "can_handle_chat_completion"}

\* C5: whatever was called before, can_handle_post_prompt returns True and
\* each of the nine other capability checks returns False.
C5_CapabilityChecks ==
    /\ lastCall = "can_handle_post_prompt" => ret = Bool(TRUE)
    /\ lastCall \in FalseChecks => ret = Bool(FALSE)

C5_Witness ==
    /\ lastCall = "can_handle_on_response"
    /\ ret = Bool(FALSE)
    /\ TotalResources > 0
    /\ host # lastHost

\* C6: on a host of a recognized OS family post_prompt calls get_system_info,
\* then appends exactly one resource, "Shell commands executed on " followed
\* by the string returned, and returns the prompt it was given.
C6_PostPromptAppends ==
    (lastCall = "post_prompt" /\ fault = "none" /\ Recognized(lastHost)) =>
        /\ ret.t = "prompt"
        /\ calls[1] = "self.get_system_info"
        /\ Last(calls) = "prompt.add_resource"
        /\ Count(calls, "prompt.add_resource") = 1
        /\ resources[ret.id] # <<>>
        /\ Last(resources[ret.id]) =
               Prefix \o Outcome(RunSystemInfo(lastHost, "none")).s

\* the label get_system_info gives an OS family
Label(sys) ==
    CASE sys = "Linux" -> "Linux"
      [] sys = "Windows" -> "Windows"
      [] sys = "Darwin" -> "macOS"

\* C7 as stated: on every recognized OS family the string returned contains
\* the architecture bit-width, the label of the family and the OS-specific
\* fields.
C7_ArchInEveryString ==
    (InfoReturned /\ Recognized(lastHost) /\ ret.t = "str") =>
        /\ Contains(ret.s, Label(lastHost.system))
        /\ Contains(ret.s, lastHost.architecture[1])

\* C7 amended: a string returned on a recognized OS family contains the
\* label of the family; on Linux it also contains the architecture and the
\* distro fields; on Darwin it is "macOS", the release and the third field
\* of mac_ver(), the same for every architecture.
C7_ArchOnLinuxOnly ==
    (lastCall = "get_system_info" /\ Recognized(lastHost) /\ ret.t = "str") =>
        /\ Contains(ret.s, Label(lastHost.system))
        /\ lastHost.system = "Linux" =>
              /\ Contains(ret.s, lastHost.architecture[1])
              /\ Contains(ret.s, lastHost.distro_name)
              /\ Contains(ret.s, lastHost.distro_version)
              /\ Contains(ret.s, lastHost.distro_id)
        /\ lastHost.system = "Darwin" =>
              /\ ret.s = "macOS " \o lastHost.mac_ver[1] \o " "
                                  \o lastHost.mac_ver[3]
              /\ \A a \in Archs \cup {"", "128bit"} :
                    Outcome(RunSystemInfo(
                        [lastHost EXCEPT !.architecture[1] = a], fault)) = ret

C7_Witness ==
    /\ lastCall = "get_system_info"
    /\ lastHost.system = "Darwin"
    /\ lastHost.architecture[1] = "64bit"
    /\ ret = Str("macOS 10.15.7 ")

\* C8: when an OS query raises during get_system_info or post_prompt, that
\* exception is what the framework's call site receives, the query was made
\* once and nothing was called after it, and no prompt has changed.
C8_QueryErrorPropagates ==
    [][((CallSystemInfo \/ CallPostPrompt)
        /\ \E i \in 1..Len(calls') : calls'[i] = fault')
       => /\ ret' = QueryError(fault')
          /\ Count(calls', fault') = 1
          /\ Last(calls') = fault'
          /\ resources' = resources]_vars

C8_Witness ==
    /\ lastCall = "post_prompt"
    /\ fault = "distro.version"
    /\ lastHost.system = "Linux"
    /\ ret = QueryError("distro.version")
    /\ calls = <<"self.get_system_info", "platform.architecture",
                 "platform.system", "distro.name", "distro.version">>
    /\ TotalResources = 1

\* C9: no step changes _name, _version or _description; get_system_info
\* changes no prompt; called twice under the same host facts it returns the
\* same result, also when the first call was the one post_prompt made; and
\* called after the host facts changed it reports the facts of the moment.
C9_NoStateKept ==
    [][/\ <<_name, _version, _description>>' = <<_name, _version, _description>>
       /\ CallSystemInfo =>
            /\ resources' = resources
            /\ messages' = messages /\ arguments' = arguments
            /\ (lastCall = "get_system_info" /\ lastHost = host
                /\ fault' = fault) => ret' = ret
            /\ (lastCall = "post_prompt" /\ lastHost = host /\ fault' = fault
                /\ Last(calls) = "prompt.add_resource") =>
                   /\ ret'.t = "str"
                   /\ Last(resources[ret.id]) = Prefix \o ret'.s
            /\ (fault' = "none" /\ host.system = "Linux") =>
                   /\ ret'.t = "str"
                   /\ Contains(ret'.s, host.architecture[1])
                   /\ Contains(ret'.s, host.distro_name \o " "
                                       \o host.distro_version)
            /\ (fault' = "none" /\ host.system = "Darwin") =>
                   /\ ret'.t = "str"
                   /\ Contains(ret'.s, host.mac_ver[1] \o " " \o host.mac_ver[3])
      ]_vars

\* get_system_info has returned on a host other than the one whose
\* description a prompt already holds
C9_Witness ==
    /\ InfoReturned
    /\ lastHost = host
    /\ ret.t = "str"
    /\ \E p \in PromptIds :
          /\ resources[p] # <<>>
          /\ Last(resources[p]) # Prefix \o ret.s

====
